---- MODULE Spec2Model ----
(***************************************************************************)
(* Chat client of the image analysis agent (apps/Image_Analysis_app.py):  *)
(* the Streamlit session state (user_id, session_id, messages) and the    *)
(* two handlers create_session and send_message, each split at its        *)
(* blocking requests.post call so that the host's answer is an input.     *)
(*                                                                         *)
(* Python values are tagged records: None is [none |-> TRUE], a str that  *)
(* may also be None is [str |-> s], bytes are [bytes |-> <<...>>], an      *)
(* uploaded file is [file |-> <<...>>].  Plain str values are strings.    *)
(***************************************************************************)
EXTENDS Integers, Sequences, FiniteSets, TLC

\* ------------------------------------------------------------------ bounds
TicksPerSecond == 2
StartClock == 19
MaxClock == 21
MaxHistory == 3
MaxEvents == 2

\* ------------------------------------------------------- program constants
APP_NAME == "image_agent"
HTTP_OK == 200

\* ---------------------------------------------------------- Python values
None == [none |-> TRUE]
Str(s) == [str |-> s]
Bytes(b) == [bytes |-> b]
File(b) == [file |-> b]

\* Python truth value of an optional str / optional uploaded file
Truthy(v) == v # None /\ v # Str("")

\* dict.get(key, default)
Get(d, k, default) == IF k \in DOMAIN d THEN d[k] ELSE default

\* how a handler invocation ends
Running == [running |-> TRUE]
Returned(b) == [ret |-> b]
Raised(e) == [raise |-> e]

\* -------------------------------------------------------------- int -> str
DigitChars == "0123456789"

\* str(int): the decimal digits, most significant first
RECURSIVE IntToStr(_)
IntToStr(n) ==
  IF n < 10 THEN SubSeq(DigitChars, n + 1, n + 1)
  ELSE IntToStr(n \div 10) \o SubSeq(DigitChars, (n % 10) + 1, (n % 10) + 1)

\* int(time.time()): the clock counts ticks, the id uses whole seconds
UnixSeconds(clk) == clk \div TicksPerSecond

\* variant: the id is taken from the whole minute instead of the whole second
NewSessionId_Minutes(clk) == "session-" \o IntToStr(UnixSeconds(clk) \div 60)

\* f"session-{int(time.time())}"
NewSessionId(clk) == "session-" \o IntToStr(UnixSeconds(clk))

\* ------------------------------------------------------------------ base64
B64Alphabet == "ABCDEFGHIJKLMNOPQRSTUVWXYZabcdefghijklmnopqrstuvwxyz0123456789+/"

B64Char(i) == SubSeq(B64Alphabet, i + 1, i + 1)

\* variant: the low bits of a trailing second byte are not shifted into place
RECURSIVE b64encode_NoShift(_)
b64encode_NoShift(b) ==
  IF Len(b) = 0 THEN ""
  ELSE IF Len(b) = 1 THEN
    B64Char(b[1] \div 4) \o B64Char((b[1] % 4) * 16) \o "=="
  ELSE IF Len(b) = 2 THEN
    B64Char(b[1] \div 4) \o B64Char((b[1] % 4) * 16 + b[2] \div 16)
      \o B64Char(b[2] % 16) \o "="
  ELSE
    B64Char(b[1] \div 4) \o B64Char((b[1] % 4) * 16 + b[2] \div 16)
      \o B64Char((b[2] % 16) * 4 + b[3] \div 64) \o B64Char(b[3] % 64)
      \o b64encode_NoShift(SubSeq(b, 4, Len(b)))

\* base64.b64encode(image_bytes).decode()
RECURSIVE b64encode(_)
b64encode(b) ==
  IF Len(b) = 0 THEN ""
  ELSE IF Len(b) = 1 THEN
    B64Char(b[1] \div 4) \o B64Char((b[1] % 4) * 16) \o "=="
  ELSE IF Len(b) = 2 THEN
    B64Char(b[1] \div 4) \o B64Char((b[1] % 4) * 16 + b[2] \div 16)
      \o B64Char((b[2] % 16) * 4) \o "="
  ELSE
    B64Char(b[1] \div 4) \o B64Char((b[1] % 4) * 16 + b[2] \div 16)
      \o B64Char((b[2] % 16) * 4 + b[3] \div 64) \o B64Char(b[3] % 64)
      \o b64encode(SubSeq(b, 4, Len(b)))

\* ------------------------------------------------------------------ inputs
UserIds == {"user-1f0c"}
\* (text, upload) pairs a caller submits
Submissions == {<<"hi", None>>,
                <<"what is this?", File(<<77, 97, 110>>)>>,
                <<"hi", File(<<255, 77>>)>>,
                <<"what is this?", File(<<0, 16, 131, 255>>)>>}

\* events the host may return
EvModel(t) == [content |-> [role |-> "model", parts |-> <<[text |-> t]>>]]
EvEmptyParts == [content |-> [role |-> "model", parts |-> <<>>]]
EvUser == [content |-> [role |-> "user", parts |-> <<[text |-> "echo"]>>]]
EvToolCall == [content |-> [role |-> "model",
                            parts |-> <<[functionCall |-> "f"], [text |-> "late"]>>]]
EvNoContent == [author |-> "image_agent"]
EvNullContent == [content |-> None]
EventKinds == {EvModel("hello"), EvModel("bye"), EvModel(""), EvEmptyParts,
               EvToolCall}

RECURSIVE SeqsUpTo(_, _)
SeqsUpTo(S, n) ==
  IF n = 0 THEN {<<>>}
  ELSE LET shorter == SeqsUpTo(S, n - 1)
       IN shorter \cup {Append(s, e) : s \in {t \in shorter : Len(t) = n - 1}, e \in S}

EventLists == SeqsUpTo(EventKinds, MaxEvents)
                \cup {<<EvUser>>, <<EvModel("hello"), EvUser>>,
                      <<EvNoContent>>, <<EvNullContent>>,
                      <<EvModel("hello"), EvNullContent>>}

\* what requests.post may produce
HttpResponse(status, text, body) == [status_code |-> status, text |-> text, json |-> body]
ConnectionError == [raise |-> "ConnectionError"]
CreateResponses == {HttpResponse(200, "{}", [invalid |-> TRUE]),
                    HttpResponse(400, "Session already exists", [invalid |-> TRUE]),
                    HttpResponse(500, "Internal Server Error", [invalid |-> TRUE]),
                    ConnectionError}
RunResponses == {HttpResponse(200, "[...]", [events |-> ev]) : ev \in EventLists}
                \cup {HttpResponse(200, "<html>", [invalid |-> TRUE]),
                      HttpResponse(404, "Session not found", [invalid |-> TRUE]),
                      HttpResponse(500, "Internal Server Error", [invalid |-> TRUE]),
                      ConnectionError}

\* ------------------------------------------------------------------- state
\* session_state: st.session_state; clock: time.time() in ticks;
\* pc, locals: where the running handler is blocked and its local variables;
\* call: the current/most recent handler invocation as a caller observes it
\*       (arguments, whole-second time and state at its start, requests
\*       issued, answer, outcome, st.error texts);
\* ghost: history of the run: every session id stored so far, the
\*        whole-second time at which the handler that stored the current one
\*        began, the user id generated at load, the number of requests not yet
\*        answered and the id of the latest create-session the host accepted
VARIABLES session_state, clock, pc, locals, call, ghost
vars == <<session_state, clock, pc, locals, call, ghost>>

user_id == session_state.user_id
session_id == session_state.session_id
messages == session_state.messages

Init ==
  /\ \E u \in UserIds :
       /\ session_state = [user_id |-> u, session_id |-> None, messages |-> <<>>]
       /\ ghost = [stored_ids |-> {}, created_at |-> -1, first_user_id |-> u,
                   in_flight |-> 0, last_ok_id |-> None]
  /\ clock = StartClock
  /\ pc = "idle"
  /\ locals = None
  /\ call = [op |-> "none", args |-> None, at |-> UnixSeconds(StartClock), pre |-> None,
             pre_ghost |-> None, requests |-> <<>>,
             response |-> None, result |-> Running, errors |-> <<>>]

NewCall(op, args) ==
  [op |-> op, args |-> args, at |-> UnixSeconds(clock), pre |-> session_state,
   pre_ghost |-> ghost, requests |-> <<>>,
   response |-> None, result |-> Running, errors |-> <<>>]

\* ---------------------------------------------------------- create_session
\* the POST of lines 85-89
CreateRequest(ss, sid) ==
  [method |-> "POST",
   url |-> <<"apps", APP_NAME, "users", ss.user_id, "sessions", sid>>,
   data |-> "{}"]

\* variant: the new id is stored but the old turns are kept
create_session_finish_KeepsHistory(ss, sid, response) ==
  IF response.status_code = HTTP_OK
  THEN [ss |-> [ss EXCEPT !.session_id = Str(sid)],
        result |-> Returned(TRUE), errors |-> <<>>]
  ELSE [ss |-> ss,
        result |-> Returned(FALSE),
        errors |-> <<"Failed to create session: " \o response.text>>]

\* variant: the state is replaced before the status is looked at
create_session_finish_StoresFirst(ss, sid, response) ==
  IF response.status_code = HTTP_OK
  THEN [ss |-> [ss EXCEPT !.session_id = Str(sid), !.messages = <<>>],
        result |-> Returned(TRUE), errors |-> <<>>]
  ELSE [ss |-> [ss EXCEPT !.session_id = Str(sid), !.messages = <<>>],
        result |-> Returned(FALSE),
        errors |-> <<"Failed to create session: " \o response.text>>]

\* variant: a failed attempt drops the session the client had
create_session_finish_DropsSession(ss, sid, response) ==
  IF response.status_code = HTTP_OK
  THEN [ss |-> [ss EXCEPT !.session_id = Str(sid), !.messages = <<>>],
        result |-> Returned(TRUE), errors |-> <<>>]
  ELSE [ss |-> [ss EXCEPT !.session_id = None],
        result |-> Returned(FALSE),
        errors |-> <<"Failed to create session: " \o response.text>>]

\* variant: a new session also gets a new user id
create_session_finish_NewUser(ss, sid, response) ==
  IF response.status_code = HTTP_OK
  THEN [ss |-> [ss EXCEPT !.session_id = Str(sid), !.messages = <<>>,
                          !.user_id = "user-" \o sid],
        result |-> Returned(TRUE), errors |-> <<>>]
  ELSE [ss |-> ss,
        result |-> Returned(FALSE),
        errors |-> <<"Failed to create session: " \o response.text>>]

\* lines 90-96: what the handler does with the host's answer
create_session_finish(ss, sid, response) ==
  IF response.status_code = HTTP_OK
  THEN [ss |-> [ss EXCEPT !.session_id = Str(sid), !.messages = <<>>],
        result |-> Returned(TRUE), errors |-> <<>>]
  ELSE [ss |-> ss,
        result |-> Returned(FALSE),
        errors |-> <<"Failed to create session: " \o response.text>>]

\* variant: the handler can be started while another one is still blocked
CreateSessionCall_WhileBusy ==
  /\ LET sid == NewSessionId(clock)
     IN /\ locals' = [session_id |-> sid]
        /\ call' = [NewCall("create_session", None) EXCEPT
                      !.requests = <<CreateRequest(session_state, sid)>>]
  /\ ghost' = [ghost EXCEPT !.in_flight = @ + 1]
  /\ pc' = "create_session"
  /\ UNCHANGED <<session_state, clock>>

\* lines 84-89: compute the id, issue the request, block
CreateSessionCall ==
  /\ pc = "idle"
  /\ LET sid == NewSessionId(clock)
     IN /\ locals' = [session_id |-> sid]
        /\ call' = [NewCall("create_session", None) EXCEPT
                      !.requests = <<CreateRequest(session_state, sid)>>]
  /\ ghost' = [ghost EXCEPT !.in_flight = @ + 1]
  /\ pc' = "create_session"
  /\ UNCHANGED <<session_state, clock>>

\* variant: a non-200 answer is followed by one more attempt
CreateSessionReturn_Retries(response) ==
  /\ pc = "create_session"
  /\ IF response = ConnectionError
     THEN /\ call' = [call EXCEPT !.response = response,
                                  !.result = Raised(response.raise)]
          /\ ghost' = [ghost EXCEPT !.in_flight = @ - 1]
          /\ pc' = "idle"
          /\ locals' = None
          /\ UNCHANGED session_state
     ELSE IF response.status_code # HTTP_OK /\ Len(call.requests) < 2
     THEN /\ call' = [call EXCEPT !.requests =
                        Append(@, CreateRequest(session_state, locals.session_id))]
          /\ UNCHANGED <<session_state, ghost, pc, locals>>
     ELSE LET out == create_session_finish(session_state, locals.session_id, response)
          IN /\ session_state' = out.ss
             /\ call' = [call EXCEPT !.response = response,
                                     !.result = out.result,
                                     !.errors = out.errors]
             /\ ghost' = [ghost EXCEPT !.in_flight = @ - 1]
             /\ pc' = "idle"
             /\ locals' = None
  /\ UNCHANGED clock

CreateSessionReturn(response) ==
  /\ pc = "create_session"
  /\ IF response = ConnectionError
     THEN /\ call' = [call EXCEPT !.response = response,
                                  !.result = Raised(response.raise)]
          /\ ghost' = [ghost EXCEPT !.in_flight = @ - 1]
          /\ UNCHANGED session_state
     ELSE LET out == create_session_finish(session_state, locals.session_id, response)
          IN /\ session_state' = out.ss
             /\ call' = [call EXCEPT !.response = response,
                                     !.result = out.result,
                                     !.errors = out.errors]
             /\ ghost' =
                  [ghost EXCEPT
                     !.in_flight = @ - 1,
                     !.stored_ids = IF out.ss.session_id # session_state.session_id
                                       \/ out.result = Returned(TRUE)
                                    THEN @ \cup {out.ss.session_id} ELSE @,
                     !.created_at = IF out.ss.session_id # session_state.session_id
                                       \/ out.result = Returned(TRUE)
                                    THEN call.at ELSE @,
                     !.last_ok_id = IF response.status_code = HTTP_OK
                                    THEN Str(locals.session_id) ELSE @]
  /\ pc' = "idle"
  /\ locals' = None
  /\ UNCHANGED clock

\* ------------------------------------------------------------ send_message
\* lines 119-140
BuildPayload(ss, message, ip_file) ==
  [appName |-> APP_NAME,
   userId |-> ss.user_id,
   sessionId |-> ss.session_id.str,
   newMessage |->
     [role |-> "user",
      parts |-> IF ip_file # None
                THEN <<[text |-> message],
                       [inlineData |-> [displayName |-> "uploaded.jpg",
                                        data |-> b64encode(ip_file.file),
                                        mimeType |-> "image/jpeg"]]>>
                ELSE <<[text |-> message]>>],
   streaming |-> FALSE]

\* lines 117, 131-132
ImageBytes(ip_file) == IF ip_file # None THEN Bytes(ip_file.file) ELSE None

\* lines 142-147
UserTurn(message, ip_file) ==
  [role |-> "user", content |-> message, image_bytes |-> ImageBytes(ip_file)]

\* lines 150-154
RunRequest(payload) == [method |-> "POST", url |-> <<"run">>, data |-> payload]

\* variant: the scan stops at the first model event with parts
RECURSIVE parse_events_FirstMatch(_, _)
parse_events_FirstMatch(events, assistant_message) ==
  IF Len(events) = 0 THEN assistant_message
  ELSE LET event == Head(events)
           content == Get(event, "content", <<>>)
       IN IF content = None THEN Raised("AttributeError")
          ELSE LET parts == Get(content, "parts", <<>>)
                   isModel == "role" \in DOMAIN content /\ content.role = "model"
               IN IF isModel /\ Len(parts) > 0
                  THEN IF "text" \in DOMAIN parts[1]
                       THEN Str(parts[1].text)
                       ELSE assistant_message
                  ELSE parse_events_FirstMatch(Tail(events), assistant_message)

\* lines 161-169: the scan of the returned events, event by event
RECURSIVE parse_events(_, _)
parse_events(events, assistant_message) ==
  IF Len(events) = 0 THEN assistant_message
  ELSE LET event == Head(events)
           content == Get(event, "content", <<>>)
       IN IF content = None THEN Raised("AttributeError")
          ELSE LET parts == Get(content, "parts", <<>>)
                   isModel == "role" \in DOMAIN content /\ content.role = "model"
               IN parse_events(Tail(events),
                     IF isModel /\ Len(parts) > 0 /\ "text" \in DOMAIN parts[1]
                     THEN Str(parts[1].text)
                     ELSE assistant_message)

\* variant: the host's error text is recorded as an assistant turn
send_message_finish_ErrorAsTurn(ss, response) ==
  IF response.status_code # HTTP_OK
  THEN [ss |-> [ss EXCEPT !.messages =
                  Append(@, [role |-> "assistant", content |-> response.text])],
        result |-> Returned(FALSE),
        errors |-> <<"Agent Error: " \o response.text>>]
  ELSE IF "events" \notin DOMAIN response.json
  THEN [ss |-> ss, result |-> Raised("JSONDecodeError"), errors |-> <<>>]
  ELSE LET assistant_message == parse_events(response.json.events, None)
       IN IF assistant_message = Raised("AttributeError")
          THEN [ss |-> ss, result |-> assistant_message, errors |-> <<>>]
          ELSE IF Truthy(assistant_message)
          THEN [ss |-> [ss EXCEPT !.messages =
                          Append(@, [role |-> "assistant",
                                     content |-> assistant_message.str])],
                result |-> Returned(TRUE), errors |-> <<>>]
          ELSE [ss |-> ss, result |-> Returned(TRUE), errors |-> <<>>]

\* variant: an assistant turn is appended whenever the scan found a text key,
\* also when the text is empty
send_message_finish_AppendsEmptyReply(ss, response) ==
  IF response.status_code # HTTP_OK
  THEN [ss |-> ss, result |-> Returned(FALSE),
        errors |-> <<"Agent Error: " \o response.text>>]
  ELSE IF "events" \notin DOMAIN response.json
  THEN [ss |-> ss, result |-> Raised("JSONDecodeError"), errors |-> <<>>]
  ELSE LET assistant_message == parse_events(response.json.events, None)
       IN IF assistant_message = Raised("AttributeError")
          THEN [ss |-> ss, result |-> assistant_message, errors |-> <<>>]
          ELSE IF assistant_message # None
          THEN [ss |-> [ss EXCEPT !.messages =
                          Append(@, [role |-> "assistant",
                                     content |-> assistant_message.str])],
                result |-> Returned(TRUE), errors |-> <<>>]
          ELSE [ss |-> ss, result |-> Returned(TRUE), errors |-> <<>>]

\* variant: after a reply only the two most recent turns are kept
send_message_finish_TrimsHistory(ss, response) ==
  IF response.status_code # HTTP_OK
  THEN [ss |-> ss, result |-> Returned(FALSE),
        errors |-> <<"Agent Error: " \o response.text>>]
  ELSE IF "events" \notin DOMAIN response.json
  THEN [ss |-> ss, result |-> Raised("JSONDecodeError"), errors |-> <<>>]
  ELSE LET assistant_message == parse_events(response.json.events, None)
       IN IF assistant_message = Raised("AttributeError")
          THEN [ss |-> ss, result |-> assistant_message, errors |-> <<>>]
          ELSE IF Truthy(assistant_message)
          THEN [ss |-> [ss EXCEPT !.messages =
                          <<@[Len(@)], [role |-> "assistant",
                                        content |-> assistant_message.str]>>],
                result |-> Returned(TRUE), errors |-> <<>>]
          ELSE [ss |-> ss, result |-> Returned(TRUE), errors |-> <<>>]

\* variant: every model event with text becomes an assistant turn of its own
RECURSIVE AppendEveryReply(_, _)
AppendEveryReply(msgs, events) ==
  IF Len(events) = 0 THEN msgs
  ELSE LET content == Get(Head(events), "content", <<>>)
           parts == Get(content, "parts", <<>>)
           isModel == "role" \in DOMAIN content /\ content.role = "model"
       IN AppendEveryReply(
            IF isModel /\ Len(parts) > 0 /\ "text" \in DOMAIN parts[1]
               /\ parts[1].text # ""
            THEN Append(msgs, [role |-> "assistant", content |-> parts[1].text])
            ELSE msgs,
            Tail(events))

send_message_finish_AppendsInLoop(ss, response) ==
  IF response.status_code # HTTP_OK
  THEN [ss |-> ss, result |-> Returned(FALSE),
        errors |-> <<"Agent Error: " \o response.text>>]
  ELSE IF "events" \notin DOMAIN response.json
  THEN [ss |-> ss, result |-> Raised("JSONDecodeError"), errors |-> <<>>]
  ELSE LET assistant_message == parse_events(response.json.events, None)
       IN IF assistant_message = Raised("AttributeError")
          THEN [ss |-> ss, result |-> assistant_message, errors |-> <<>>]
          ELSE [ss |-> [ss EXCEPT !.messages =
                          AppendEveryReply(@, response.json.events)],
                result |-> Returned(TRUE), errors |-> <<>>]

\* lines 156-178: what the handler does with the host's answer
send_message_finish(ss, response) ==
  IF response.status_code # HTTP_OK
  THEN [ss |-> ss, result |-> Returned(FALSE),
        errors |-> <<"Agent Error: " \o response.text>>]
  ELSE IF "events" \notin DOMAIN response.json
  THEN [ss |-> ss, result |-> Raised("JSONDecodeError"), errors |-> <<>>]
  ELSE LET assistant_message == parse_events(response.json.events, None)
       IN IF assistant_message = Raised("AttributeError")
          THEN [ss |-> ss, result |-> assistant_message, errors |-> <<>>]
          ELSE IF Truthy(assistant_message)
          THEN [ss |-> [ss EXCEPT !.messages =
                          Append(@, [role |-> "assistant",
                                     content |-> assistant_message.str])],
                result |-> Returned(TRUE), errors |-> <<>>]
          ELSE [ss |-> ss, result |-> Returned(TRUE), errors |-> <<>>]

\* variant: the user turn is appended before the session is checked
SendMessageNoSession_AppendsFirst(message, ip_file) ==
  /\ pc = "idle"
  /\ ~Truthy(session_state.session_id)
  /\ call' = [NewCall("send_message", [message |-> message, ip_file |-> ip_file])
                EXCEPT !.result = Returned(FALSE),
                       !.errors = <<"Please create a session before sending messages.">>]
  /\ session_state' = [session_state EXCEPT
                         !.messages = Append(@, UserTurn(message, ip_file))]
  /\ UNCHANGED <<clock, pc, locals, ghost>>

\* lines 113-115: the precondition branch
SendMessageNoSession(message, ip_file) ==
  /\ pc = "idle"
  /\ ~Truthy(session_state.session_id)
  /\ call' = [NewCall("send_message", [message |-> message, ip_file |-> ip_file])
                EXCEPT !.result = Returned(FALSE),
                       !.errors = <<"Please create a session before sending messages.">>]
  /\ UNCHANGED <<session_state, clock, pc, locals, ghost>>

\* lines 117-154: build the payload, append the user turn, issue the request
SendMessageCall(message, ip_file) ==
  /\ pc = "idle"
  /\ Truthy(session_state.session_id)
  /\ Len(session_state.messages) < MaxHistory
  /\ LET payload == BuildPayload(session_state, message, ip_file)
     IN call' = [NewCall("send_message", [message |-> message, ip_file |-> ip_file])
                   EXCEPT !.requests = <<RunRequest(payload)>>]
  /\ session_state' = [session_state EXCEPT
                         !.messages = Append(@, UserTurn(message, ip_file))]
  /\ ghost' = [ghost EXCEPT !.in_flight = @ + 1]
  /\ pc' = "send_message"
  /\ locals' = [image_bytes |-> ImageBytes(ip_file)]
  /\ UNCHANGED clock

SendMessageReturn(response) ==
  /\ pc = "send_message"
  /\ IF response = ConnectionError
     THEN /\ call' = [call EXCEPT !.response = response,
                                  !.result = Raised(response.raise)]
          /\ UNCHANGED session_state
     ELSE LET out == send_message_finish(session_state, response)
          IN /\ session_state' = out.ss
             /\ call' = [call EXCEPT !.response = response,
                                     !.result = out.result,
                                     !.errors = out.errors]
  /\ pc' = "idle"
  /\ locals' = None
  /\ ghost' = [ghost EXCEPT !.in_flight = @ - 1]
  /\ UNCHANGED clock

\* -------------------------------------------------------------------- time
Tick ==
  /\ clock < MaxClock
  /\ clock' = clock + 1
  /\ UNCHANGED <<session_state, pc, locals, call, ghost>>

Next ==
  \/ CreateSessionCall
  \/ \E r \in CreateResponses : CreateSessionReturn(r)
  \/ \E s \in Submissions : SendMessageNoSession(s[1], s[2])
  \/ \E s \in Submissions : SendMessageCall(s[1], s[2])
  \/ \E r \in RunResponses : SendMessageReturn(r)
  \/ Tick

Spec == Init /\ [][Next]_vars

\* ------------------------------------------------- the handlers behind the UI
\* variant: the message input is rendered whether or not a session exists
UISubmit_NoGate(message, ip_file) ==
  IF ~Truthy(session_state.session_id)
  THEN SendMessageNoSession(message, ip_file)
  ELSE SendMessageCall(message, ip_file)

\* lines 216-223: the chat input and the uploader are rendered only in the
\* branch where session_id is set, and a submitted text calls send_message
UISubmit(message, ip_file) ==
  /\ Truthy(session_state.session_id)
  /\ IF ~Truthy(session_state.session_id)
     THEN SendMessageNoSession(message, ip_file)
     ELSE SendMessageCall(message, ip_file)

\* lines 190-196: either sidebar button calls create_session
NextUI ==
  \/ CreateSessionCall
  \/ \E r \in CreateResponses : CreateSessionReturn(r)
  \/ \E s \in Submissions : UISubmit(s[1], s[2])
  \/ \E r \in RunResponses : SendMessageReturn(r)
  \/ Tick

SpecUI == Init /\ [][NextUI]_vars

TypeOK ==
  /\ pc \in {"idle", "create_session", "send_message"}
  /\ clock \in StartClock..MaxClock
  /\ Len(messages) <= MaxHistory + 1

\* ------------------------------------------------- observing an invocation
HasStatus(r) == "status_code" \in DOMAIN r

CreateSucceeded ==
  /\ call.op = "create_session"
  /\ HasStatus(call.response)
  /\ call.response.status_code = 200

CreateFailed ==
  /\ call.op = "create_session"
  /\ HasStatus(call.response)
  /\ call.response.status_code # 200

\* the turn a send_message(message, ip_file) call is expected to record
ExpectedUserTurn ==
  [role |-> "user",
   content |-> call.args.message,
   image_bytes |-> IF call.args.ip_file = None THEN None
                   ELSE Bytes(call.args.ip_file.file)]

\* ------------------------------------------------------------------ claims

\* C1: send_message invoked while session_id is None issues no request,
\* leaves user_id, session_id and messages as they were, reports the
\* missing-session error and returns False.
C1_NoSessionSendIsInert ==
  (call.op = "send_message" /\ call.pre.session_id = None) =>
    /\ pc = "idle"
    /\ call.requests = <<>>
    /\ messages = call.pre.messages
    /\ session_id = call.pre.session_id
    /\ user_id = call.pre.user_id
    /\ call.result = Returned(FALSE)
    /\ call.errors = <<"Please create a session before sending messages.">>

C1_Witness ==
  /\ call.op = "send_message"
  /\ call.pre.session_id = None
  /\ call.result = Returned(FALSE)

\* C2: after every create_session that the host answers with status 200,
\* from NoSession or from an active session with any history, the stored
\* session_id is a non-empty string and messages is the empty sequence.
C2_CreateSuccessFreshSession ==
  CreateSucceeded =>
    /\ "str" \in DOMAIN session_id
    /\ Len(session_id.str) > 0
    /\ messages = <<>>

C2_Witness ==
  /\ CreateSucceeded
  /\ call.pre.session_id # None
  /\ Len(call.pre.messages) > 0
  /\ messages = <<>>

\* C3: after a create_session that the host answers with a status other
\* than 200, session_id, user_id and messages are what they were before
\* the call.
C3_CreateFailureLeavesState ==
  CreateFailed =>
    /\ session_id = call.pre.session_id
    /\ user_id = call.pre.user_id
    /\ messages = call.pre.messages

C3_Witness ==
  /\ CreateFailed
  /\ call.pre.session_id # None
  /\ Len(call.pre.messages) > 0
  /\ call.result = Returned(FALSE)

\* ---- the host's answer to /run, as the claims read it
SendGotEvents ==
  /\ call.op = "send_message"
  /\ HasStatus(call.response)
  /\ call.response.status_code = 200
  /\ "events" \in DOMAIN call.response.json

SendFailedStatus ==
  /\ call.op = "send_message"
  /\ HasStatus(call.response)
  /\ call.response.status_code # 200

\* an event object whose content, when present, is an object
WellFormedEvent(e) == "content" \notin DOMAIN e \/ e.content # None

\* role "model" and a non-empty parts list
IsModelWithParts(e) ==
  /\ "content" \in DOMAIN e
  /\ e.content # None
  /\ "role" \in DOMAIN e.content
  /\ e.content.role = "model"
  /\ "parts" \in DOMAIN e.content
  /\ Len(e.content.parts) > 0

FirstPartHasText(e) == "text" \in DOMAIN e.content.parts[1]

FirstPartText(e) == e.content.parts[1].text

AssistantTurn(t) == [role |-> "assistant", content |-> t]

MinOf(S) == CHOOSE i \in S : \A j \in S : i <= j

MaxOf(S) == CHOOSE i \in S : \A j \in S : j <= i

\* C4 (as stated): on a successful send_message the FIRST event with role
\* "model" and non-empty parts decides the reply: if its first part has text,
\* exactly that text is appended as the assistant turn, otherwise no
\* assistant turn is appended; later model events never override it.
C4_FirstModelEventDecides ==
  (SendGotEvents /\ call.result = Returned(TRUE)) =>
    LET ev == call.response.json.events
        cand == {i \in 1..Len(ev) : IsModelWithParts(ev[i])}
        base == Append(call.pre.messages, ExpectedUserTurn)
    IN IF cand # {} /\ FirstPartHasText(ev[MinOf(cand)])
       THEN messages = Append(base, AssistantTurn(FirstPartText(ev[MinOf(cand)])))
       ELSE messages = base

\* C4 (amended): on a successful send_message the LAST event with role
\* "model", non-empty parts and a text key in its first part decides the
\* reply: if that text is non-empty it is appended as the assistant turn;
\* if there is no such event, or its text is empty, no assistant turn is
\* appended.
C4_LastTextualModelEventDecides ==
  (SendGotEvents /\ call.result = Returned(TRUE)) =>
    LET ev == call.response.json.events
        textual == {i \in 1..Len(ev) : IsModelWithParts(ev[i]) /\ FirstPartHasText(ev[i])}
        base == Append(call.pre.messages, ExpectedUserTurn)
    IN IF textual # {} /\ FirstPartText(ev[MaxOf(textual)]) # ""
       THEN messages = Append(base, AssistantTurn(FirstPartText(ev[MaxOf(textual)])))
       ELSE messages = base

\* two model events with different texts were returned and the later one
\* became the assistant turn
C4_Witness ==
  /\ SendGotEvents
  /\ call.result = Returned(TRUE)
  /\ LET ev == call.response.json.events
     IN /\ Len(ev) >= 2
        /\ IsModelWithParts(ev[1]) /\ FirstPartHasText(ev[1])
        /\ IsModelWithParts(ev[Len(ev)]) /\ FirstPartHasText(ev[Len(ev)])
        /\ FirstPartText(ev[1]) # ""
        /\ FirstPartText(ev[Len(ev)]) # ""
        /\ FirstPartText(ev[1]) # FirstPartText(ev[Len(ev)])
        /\ messages[Len(messages)] = AssistantTurn(FirstPartText(ev[Len(ev)]))

\* C5 (as stated): every successful create_session stores a session_id that
\* differs from every session_id the client has stored before, also when two
\* calls fall within the same clock second.
C5_SessionIdNeverReused ==
  CreateSucceeded => session_id \notin call.pre_ghost.stored_ids

\* C6: a successful create_session made when prior turns exist empties
\* messages and, when the whole-second unix time at the call is later than
\* the one at which the previous session was created, stores a session_id
\* different from the previous one.
C6_NewSessionClearsAndRenames ==
  (CreateSucceeded /\ Len(call.pre.messages) > 0) =>
    /\ messages = <<>>
    /\ (call.at > call.pre_ghost.created_at => session_id # call.pre.session_id)

C6_Witness ==
  /\ CreateSucceeded
  /\ Len(call.pre.messages) > 0
  /\ call.pre.session_id # None
  /\ call.at > call.pre_ghost.created_at
  /\ session_id # call.pre.session_id

\* C7: the user turn is in messages while the /run request is in flight, and
\* when the host answers with a status other than 200 messages is the history
\* before the call plus exactly that user turn, session_id is unchanged and
\* the handler returns False.
C7_SendFailureKeepsOnlyUserTurn ==
  /\ (call.op = "send_message" /\ pc = "send_message") =>
        messages = Append(call.pre.messages, ExpectedUserTurn)
  /\ SendFailedStatus =>
        /\ messages = Append(call.pre.messages, ExpectedUserTurn)
        /\ session_id = call.pre.session_id
        /\ call.result = Returned(FALSE)

C7_Witness ==
  /\ SendFailedStatus
  /\ Len(call.pre.messages) > 0
  /\ Len(messages) = Len(call.pre.messages) + 1
  /\ messages[Len(messages)].role = "user"

\* standard base64 decoding of a padded string
B64Index(c) == CHOOSE i \in 0..63 : B64Char(i) = c

RECURSIVE b64decode(_)
b64decode(str) ==
  IF Len(str) < 4 THEN <<>>
  ELSE LET n1 == B64Index(SubSeq(str, 1, 1))
           n2 == B64Index(SubSeq(str, 2, 2))
           c3 == SubSeq(str, 3, 3)
           c4 == SubSeq(str, 4, 4)
       IN IF c3 = "=" THEN <<n1 * 4 + n2 \div 16>>
          ELSE IF c4 = "="
          THEN <<n1 * 4 + n2 \div 16, (n2 % 16) * 16 + B64Index(c3) \div 4>>
          ELSE <<n1 * 4 + n2 \div 16,
                 (n2 % 16) * 16 + B64Index(c3) \div 4,
                 (B64Index(c3) % 4) * 64 + B64Index(c4)>>
               \o b64decode(SubSeq(str, 5, Len(str)))

\* C8: the /run payload has exactly the text part when no image is given and
\* exactly the text part followed by an inline-data part when one is given,
\* whose base64 data decodes to the uploaded bytes; streaming is false.
C8_PayloadParts ==
  (call.op = "send_message" /\ Len(call.requests) > 0) =>
    LET payload == call.requests[1].data
        parts == payload.newMessage.parts
    IN /\ payload.streaming = FALSE
       /\ parts[1] = [text |-> call.args.message]
       /\ IF call.args.ip_file = None
          THEN Len(parts) = 1
          ELSE /\ Len(parts) = 2
               /\ DOMAIN parts[2] = {"inlineData"}
               /\ Len(parts[2].inlineData.data) % 4 = 0
               /\ b64decode(parts[2].inlineData.data) = call.args.ip_file.file

C8_Witness ==
  /\ call.op = "send_message"
  /\ Len(call.requests) > 0
  /\ call.args.ip_file # None
  /\ Len(call.args.ip_file.file) % 3 = 2
  /\ Len(call.requests[1].data.newMessage.parts) = 2

\* C9: when the host answers /run with status 200 and an event array that
\* holds no model event with non-empty parts whose first part has non-empty
\* text, the handler returns True, shows no error, and messages is the
\* history before the call plus the user turn only.
C9_NoReplyNoAssistantTurn ==
  (/\ SendGotEvents
   /\ \A i \in 1..Len(call.response.json.events) :
        LET e == call.response.json.events[i]
        IN /\ WellFormedEvent(e)
           /\ ~(IsModelWithParts(e) /\ FirstPartHasText(e) /\ FirstPartText(e) # ""))
  =>
    /\ call.result = Returned(TRUE)
    /\ call.errors = <<>>
    /\ Len(messages) = Len(call.pre.messages) + 1
    /\ messages = Append(call.pre.messages, ExpectedUserTurn)

C9_Witness ==
  /\ SendGotEvents
  /\ Len(call.response.json.events) = 2
  /\ \A i \in 1..2 : IsModelWithParts(call.response.json.events[i])
  /\ call.result = Returned(TRUE)
  /\ Len(messages) = Len(call.pre.messages) + 1

\* C10 (as stated): whatever the host call's outcome, create_session and
\* send_message end by returning normally, a failure being reported through
\* st.error.
C10_NoExceptionEscapes ==
  (call.op # "none" /\ pc = "idle") =>
    /\ "ret" \in DOMAIN call.result
    /\ (call.result.ret = FALSE => Len(call.errors) > 0)

\* C11: no automatic retry: an invocation of create_session issues exactly one
\* create-session request and an invocation of send_message with an active
\* session exactly one /run request, whatever the answer; once the host has
\* answered the handler has ended.
C11_OneRequestPerInvocation ==
  /\ call.op = "create_session" =>
        /\ Len(call.requests) = 1
        /\ call.requests[1].method = "POST"
        /\ call.requests[1].url[1] = "apps"
  /\ (call.op = "send_message" /\ call.pre.session_id # None) =>
        /\ Len(call.requests) = 1
        /\ call.requests[1].method = "POST"
        /\ call.requests[1].url = <<"run">>
  /\ call.response # None => (pc = "idle" /\ call.result # Running)

C11_Witness ==
  /\ call.op = "send_message"
  /\ HasStatus(call.response)
  /\ call.response.status_code = 500
  /\ Len(call.requests) = 1
  /\ pc = "idle"

\* C12: once the host has accepted a create-session, session_id is set in
\* every later state, whatever create_session and send_message calls follow
\* and however they end; whenever no handler is running create_session can be
\* invoked again, and so can send_message.
C12_NoWayBackToNoSession ==
  /\ ghost.last_ok_id # None => Truthy(session_id)
  /\ pc = "idle" => ENABLED CreateSessionCall
  /\ (pc = "idle" /\ Len(messages) < MaxHistory) =>
        ENABLED (SendMessageNoSession("hi", None) \/ SendMessageCall("hi", None))

C12_Witness ==
  /\ ghost.last_ok_id # None
  /\ call.op = "create_session"
  /\ call.result = Raised("ConnectionError")
  /\ Len(messages) > 0
  /\ Truthy(session_id)
  /\ pc = "idle"

IsPrefix(a, b) == Len(a) <= Len(b) /\ SubSeq(b, 1, Len(a)) = a

\* C13: within one session the history only grows at its end: during and
\* after every send_message, however it ends, and every create_session the
\* host did not accept, the history before the call is a prefix of the
\* current one; the history before a call fails to be a prefix only after a
\* create_session answered with 200, and then the history is empty.
C13_HistoryAppendOnly ==
  /\ call.op = "send_message" => IsPrefix(call.pre.messages, messages)
  /\ (call.op = "create_session" /\ ~CreateSucceeded) =>
        messages = call.pre.messages
  /\ (call.op # "none" /\ ~IsPrefix(call.pre.messages, messages)) =>
        (CreateSucceeded /\ messages = <<>>)

C13_Witness ==
  /\ call.op = "send_message"
  /\ call.result = Returned(TRUE)
  /\ Len(call.pre.messages) > 0
  /\ Len(messages) = Len(call.pre.messages) + 2
  /\ IsPrefix(call.pre.messages, messages)

\* the user id a request carries: in the path of a create-session request,
\* in the body of a /run request
RequestUserId(req) == IF req.url = <<"run">> THEN req.data.userId ELSE req.url[4]

\* C14: user_id always equals the value generated at load, after any calls
\* of create_session and send_message however they ended, and every
\* create-session and /run request carries that value.
C14_UserIdFixed ==
  /\ user_id = ghost.first_user_id
  /\ \A i \in 1..Len(call.requests) :
        RequestUserId(call.requests[i]) = ghost.first_user_id

C14_Witness ==
  /\ call.op = "send_message"
  /\ Len(call.requests) = 1
  /\ Cardinality(ghost.stored_ids) >= 2
  /\ RequestUserId(call.requests[1]) = ghost.first_user_id
  /\ user_id = ghost.first_user_id

C16_AssistantFollowsUser ==
  \A i \in 1..Len(messages) :
    messages[i].role = "assistant" => (i > 1 /\ messages[i - 1].role = "user")

C16_Witness ==
  /\ Len(messages) >= 3
  /\ messages[1].role = "user"
  /\ messages[2].role = "user"
  /\ messages[3].role = "assistant"

\* C17: a non-empty history implies an active session: while session_id is
\* None the history is empty.
C17_HistoryNeedsSession ==
  Len(messages) > 0 => Truthy(session_id)

C17_Witness ==
  /\ Len(messages) >= 2
  /\ Truthy(session_id)
  /\ call.op = "send_message"
  /\ pc = "idle"

\* C18 (as stated): every /run request carries the session_id the client
\* holds, which is the id of the latest create-session the host accepted;
\* an id generated by a create_session that failed, and the id of a session
\* that a later successful create_session replaced, are not sent afterwards
\* (stated here for the send_message that directly follows that
\* create_session).
C18_RunCarriesOnlyLiveSessionId ==
  [][(call'.op = "send_message" /\ Len(call'.requests) = 1) =>
       LET sent == call'.requests[1].data.sessionId
       IN /\ Str(sent) = session_id
          /\ session_id = ghost.last_ok_id
          /\ CreateFailed => sent # call.requests[1].url[6]
          /\ (CreateSucceeded /\ call.pre.session_id # None) =>
                Str(sent) # call.pre.session_id]_vars

\* C19: when the handlers are invoked through the UI only, send_message is
\* called only with session_id set: its missing-session branch is never
\* taken, so every call of it issues its /run request and the
\* missing-session error is never shown.
C19_MissingSessionBranchUnreachable ==
  call.op = "send_message" =>
    /\ Truthy(call.pre.session_id)
    /\ Len(call.requests) = 1
    /\ \A i \in 1..Len(call.errors) :
          call.errors[i] # "Please create a session before sending messages."

\* a submission made through the UI with a session set, whose /run request
\* was issued and answered with an error status
C19_Witness ==
  /\ call.op = "send_message"
  /\ Truthy(call.pre.session_id)
  /\ call.result = Returned(FALSE)
  /\ Len(call.errors) = 1
====
